---- MODULE Spec2Model ----
(***************************************************************************)
(* Model of certbot_dns_infoblox_universal.dns_infoblox_universal:         *)
(* the Authenticator's state (credentials, infoclient, infotxts), its      *)
(* handlers _setup_credentials, _perform and _cleanup, and the remote      *)
(* record collection those handlers act on.                                *)
(*                                                                         *)
(* A remote call either succeeds (it takes effect and returns) or raises   *)
(* (it takes no effect); its result is an input of the handler, drawn from *)
(* the small sets below.  Python strings that the code takes apart         *)
(* (validation_name) are sequences of one-character strings; the other     *)
(* strings are opaque.  The wall-clock text of the record comment is left  *)
(* out of the payload.                                                     *)
(***************************************************************************)
EXTENDS Integers, Sequences, FiniteSets, TLC

VARIABLES
    credentials,   \* self.credentials
    infoclient,    \* self.infoclient
    infotxts,      \* self.infotxts
    remote,        \* identifiers of the records created here and still present remotely
    nextId,        \* the identifier the remote side hands to the next created record
    lastOp,        \* history: the handler that ran last
    outcome,       \* history: "ok", or the exception that handler raised
    calls,         \* history: the remote calls that handler issued, in order
    prePending,    \* history: self.infotxts when that handler started
    args,          \* history: the arguments that handler was invoked with
    builds,        \* history: the ApiClient objects constructed so far
    deleted,       \* history: the identifiers whose delete call succeeded
    nDeleted,      \* history: the delete calls that succeeded so far
    run            \* history: the host's usage, while the run follows it

vars == <<credentials, infoclient, infotxts, remote, nextId,
          lastOp, outcome, calls, prePending, args,
          builds, deleted, nDeleted, run>>

-----------------------------------------------------------------------------
(* Bounds *)

MaxRecords == 5      \* records created in one run
MaxLen     == 2      \* characters of a validation name

-----------------------------------------------------------------------------
(* Values *)

None    == [none |-> TRUE]      \* Python None, for objects
NoneStr == "<None>"             \* Python None, where a string is expected

ttl     == 300
csp_url == "https://stage.csp.infoblox.com"

ApiKeys      == {"key1"}
ViewSettings == {NoneStr, "", "internal"}
Alphabet     == {"a", "."}

BoundedSeq(S, n) == UNION {[1..k -> S] : k \in 0..n}

Names == BoundedSeq(Alphabet, MaxLen)

Challenge(d, n, v) == [domain |-> d, validation_name |-> n, validation |-> v]

\* the challenges of the record-construction runs: every name, and domains
\* and tokens that vary independently of each other
AllChallenges ==
    {Challenge(dv[1], n, dv[2]) :
        dv \in {<<"example.com", "abc123">>, <<"example.com", "xyz789">>,
                <<"other.org", "abc123">>},
        n \in Names}

\* the challenges of the lifecycle runs
RunChallenges ==
    {Challenge("example.com", <<"a", ".">>, "abc123"),
     Challenge("other.org", <<"a">>, "xyz789")}

\* what a view list and a zone list can return: the identifiers of the
\* matching entries, an absent identifier being NoneStr
ViewResults ==
    {<<>>, <<NoneStr>>, <<"", "view1">>,
     <<"view1">>, <<"view1", "">>, <<"view2", "view1">>}

ZoneResults == {<<>>, <<"zone1">>, <<"zone1", "zone2">>, <<"zone2", "zone1">>}

Range(s) == {s[i] : i \in 1..Len(s)}

\* truth value of a Python string or None
Falsy(x) == x \in {NoneStr, ""}

\* x or d
PyOr(x, d) == IF Falsy(x) THEN d ELSE x

NoArgs == Challenge(NoneStr, <<>>, NoneStr)

-----------------------------------------------------------------------------
(* Responses of the remote side *)

\* a call that raised returns nothing
Raised == [ok |-> FALSE, results |-> <<>>]

ListResponses(Results) ==
    {Raised} \cup {[ok |-> TRUE, results |-> r] : r \in Results}

CreateResponses == {Raised, [ok |-> TRUE, results |-> <<>>]}

Call(api, arg, resp) ==
    [api |-> api, arg |-> arg, ok |-> resp.ok, results |-> resp.results]

-----------------------------------------------------------------------------
(* _get_infoblox_client *)

ApiClient(creds) ==
    [csp_url |-> csp_url, api_key |-> creds.api_key, client_name |-> "certbot"]

\* the exception of _get_infoblox_client, "ok" when it returns
GetClientOutcome(client, creds) ==
    IF client = None /\ creds = None THEN "AttributeError" ELSE "ok"

\* mutation: the handle is built on every call, self.infoclient untested
GetClient_Rebuild(client, creds) ==
    IF creds = None
      THEN [infoclient |-> client, built |-> 0]
      ELSE [infoclient |-> ApiClient(creds), built |-> 1]

\* one call of _get_infoblox_client: the handle it leaves in self.infoclient
\* and the number of ApiClient objects it constructs
GetClient(client, creds) ==
    IF client = None
      THEN IF creds = None
             THEN [infoclient |-> client, built |-> 0]
             ELSE [infoclient |-> ApiClient(creds), built |-> 1]
      ELSE [infoclient |-> client, built |-> 0]

\* mutation: the handle is built but not stored in self.infoclient
GetInfobloxClient_NoStore(client, creds) == client

GetInfobloxClient(client, creds) == GetClient(client, creds).infoclient

-----------------------------------------------------------------------------
(* _get_infoblox_record *)

\* mutation: the configured name is used as it is
ViewName_Raw(creds) == creds.view

ViewName(creds) == PyOr(creds.view, "default")

ViewCall(creds, resp) ==
    Call("ViewApi.list", [name |-> ViewName(creds), inherit |-> "full"], resp)

ZoneCall(domain, resp) ==
    Call("AuthZoneApi.list", [fqdn |-> domain, inherit |-> "full"], resp)

\* mutation: an error of the view query is caught and the lookup goes on
ResolveView_Swallow(resp) ==
    IF ~resp.ok THEN [outcome |-> "ok", id |-> "default"]
    ELSE IF resp.results = <<>> THEN [outcome |-> "IndexError"]
    ELSE IF Falsy(resp.results[1]) THEN [outcome |-> "ValueError"]
    ELSE [outcome |-> "ok", id |-> resp.results[1]]

\* mutation: the `if not view` test is left out
ResolveView_NoIdCheck(resp) ==
    IF ~resp.ok THEN [outcome |-> "TransportError"]
    ELSE IF resp.results = <<>> THEN [outcome |-> "IndexError"]
    ELSE [outcome |-> "ok", id |-> resp.results[1]]

\* view = result[1][0].id ; if not view: raise ValueError
ResolveView(resp) ==
    IF ~resp.ok THEN [outcome |-> "TransportError"]
    ELSE IF resp.results = <<>> THEN [outcome |-> "IndexError"]
    ELSE IF Falsy(resp.results[1]) THEN [outcome |-> "ValueError"]
    ELSE [outcome |-> "ok", id |-> resp.results[1]]

\* mutation: an empty zone list is not checked for
ResolveZone_NoCheck(resp) ==
    IF ~resp.ok THEN [outcome |-> "TransportError"]
    ELSE IF resp.results = <<>> THEN [outcome |-> "ok", id |-> NoneStr]
    ELSE [outcome |-> "ok", id |-> resp.results[1]]

\* if zone.results: zone_id = zone.results[0].id  else: raise ValueError
ResolveZone(resp) ==
    IF ~resp.ok THEN [outcome |-> "TransportError"]
    ELSE IF resp.results = <<>> THEN [outcome |-> "ValueError"]
    ELSE [outcome |-> "ok", id |-> resp.results[1]]

\* mutation: the validation name is not split
NameInZone_Whole(s) == s

\* validation_name.split(".", 1)[0]
RECURSIVE NameInZone(_)
NameInZone(s) ==
    IF s = <<>> THEN <<>>
    ELSE IF Head(s) = "." THEN <<>>
    ELSE <<Head(s)>> \o NameInZone(Tail(s))

RecordBody(domain, validation_name, validation, zone_id) ==
    [name         |-> validation_name,
     type         |-> "TXT",
     rdata        |-> [text |-> validation],
     name_in_zone |-> NameInZone(validation_name),
     zone         |-> zone_id,
     ttl          |-> ttl,
     comment      |-> <<"certbot-auto for", domain>>]

\* mutation: the resolved view is attached to the record
GetInfobloxRecord_AttachView(creds, domain, validation_name, validation, viewResp, zoneResp) ==
    LET view == ResolveView(viewResp)
        zone == ResolveZone(zoneResp)
        vc   == ViewCall(creds, viewResp)
        zc   == ZoneCall(domain, zoneResp)
        body == RecordBody(domain, validation_name, validation, zone.id)
    IN  IF view.outcome # "ok"
          THEN [outcome |-> view.outcome, calls |-> <<vc>>]
        ELSE IF zone.outcome # "ok"
          THEN [outcome |-> zone.outcome, calls |-> <<vc, zc>>]
        ELSE [outcome |-> "ok", calls |-> <<vc, zc>>,
              body |-> [f \in DOMAIN body \cup {"view"} |->
                          IF f = "view" THEN view.id ELSE body[f]]]

GetInfobloxRecord(creds, domain, validation_name, validation, viewResp, zoneResp) ==
    LET view == ResolveView(viewResp)
        zone == ResolveZone(zoneResp)
        vc   == ViewCall(creds, viewResp)
        zc   == ZoneCall(domain, zoneResp)
    IN  IF view.outcome # "ok"
          THEN [outcome |-> view.outcome, calls |-> <<vc>>]
        ELSE IF zone.outcome # "ok"
          THEN [outcome |-> zone.outcome, calls |-> <<vc, zc>>]
        ELSE [outcome |-> "ok", calls |-> <<vc, zc>>,
              body |-> RecordBody(domain, validation_name, validation, zone.id)]

-----------------------------------------------------------------------------
(* _perform *)

\* a create that succeeds returns the identifier of the new record
CreateCall(body, resp, id) ==
    Call("RecordApi.create", body,
         [ok |-> resp.ok, results |-> IF resp.ok THEN <<id>> ELSE <<>>])

\* mutation: the identifier is assigned, not appended
PerformAppend_Replace(txts, id) == <<id>>

\* mutation: the identifier is inserted at the front
PerformAppend_Front(txts, id) == <<id>> \o txts

\* self.infotxts.append(txt.result.id)
PerformAppend(txts, id) == Append(txts, id)

PerformResult(creds, txts, id, domain, validation_name, validation, viewResp, zoneResp, createResp) ==
    LET rec == GetInfobloxRecord(creds, domain, validation_name, validation,
                                 viewResp, zoneResp)
    IN  IF rec.outcome # "ok"
          THEN [outcome |-> rec.outcome, calls |-> rec.calls,
                infotxts |-> txts, created |-> {}]
        ELSE IF ~createResp.ok
          THEN [outcome |-> "TransportError",
                calls |-> Append(rec.calls, CreateCall(rec.body, createResp, id)),
                infotxts |-> txts, created |-> {}]
        ELSE [outcome |-> "ok",
              calls |-> Append(rec.calls, CreateCall(rec.body, createResp, id)),
              infotxts |-> PerformAppend(txts, id), created |-> {id}]

-----------------------------------------------------------------------------
(* _cleanup *)

DeleteCall(id, ok) ==
    Call("RecordApi.delete", [id |-> id], [ok |-> ok, results |-> <<>>])

\* mutation: the identifier is not removed
ListRemove_Keep(s, x) == s

\* mutation: the last element is dropped, as by list.pop()
ListRemove_Last(s, x) == SubSeq(s, 1, Len(s) - 1)

\* list.remove(x): drops the first element equal to x
RECURSIVE ListRemove(_, _)
ListRemove(s, x) ==
    IF s = <<>> THEN <<>>
    ELSE IF Head(s) = x THEN Tail(s)
    ELSE <<Head(s)>> \o ListRemove(Tail(s), x)

\* for txt in self.infotxts: delete(id=txt); self.infotxts.remove(txt)
\* i is the position the list iterator reads next, failing the identifiers
\* whose delete call raises
RECURSIVE CleanupLoop(_, _, _, _, _)
CleanupLoop(txts, i, failing, done, rem) ==
    IF i > Len(txts)
      THEN [outcome |-> "ok", calls |-> done, infotxts |-> txts, remote |-> rem]
    ELSE LET txt == txts[i]
         IN  IF txt \in failing
               THEN [outcome |-> "TransportError",
                     calls |-> Append(done, DeleteCall(txt, FALSE)),
                     infotxts |-> txts, remote |-> rem]
               ELSE CleanupLoop(ListRemove(txts, txt), i + 1, failing,
                                Append(done, DeleteCall(txt, TRUE)),
                                rem \ {txt})

CleanupResult(txts, failing, rem) ==
    IF txts = <<>>
      THEN [outcome |-> "ok", calls |-> <<>>, infotxts |-> txts, remote |-> rem]
      ELSE CleanupLoop(txts, 1, failing, <<>>, rem)

-----------------------------------------------------------------------------
(* The host's usage: successful performs, then as many cleanups in which    *)
(* every delete succeeds.  run counts both while the run has that shape.    *)

OffRun == [on |-> FALSE, performs |-> 0, cleanups |-> 0]

RunAfterPerform(r, result) ==
    IF r.on /\ r.cleanups = 0 /\ result = "ok"
      THEN [r EXCEPT !.performs = @ + 1]
      ELSE OffRun

RunAfterCleanup(r, result) ==
    IF r.on /\ r.cleanups < r.performs /\ result = "ok"
      THEN [r EXCEPT !.cleanups = @ + 1]
      ELSE OffRun

\* the delete calls of a log that succeeded
DeletedBy(log) == {i \in 1..Len(log) : log[i].api = "RecordApi.delete" /\ log[i].ok}

-----------------------------------------------------------------------------
(* The state machine *)

Init ==
    /\ credentials = None
    /\ infoclient = None
    /\ infotxts = <<>>
    /\ remote = {}
    /\ nextId = 1
    /\ lastOp = "init"
    /\ outcome = "ok"
    /\ calls = <<>>
    /\ prePending = <<>>
    /\ args = NoArgs
    /\ builds = 0
    /\ deleted = {}
    /\ nDeleted = 0
    /\ run = [on |-> TRUE, performs |-> 0, cleanups |-> 0]

SetupCredentials ==
    \E k \in ApiKeys, v \in ViewSettings :
        /\ credentials' = [api_key |-> k, view |-> v]
        /\ lastOp' = "setup"
        /\ outcome' = "ok"
        /\ calls' = <<>>
        /\ prePending' = infotxts
        /\ args' = NoArgs
        /\ UNCHANGED <<infoclient, infotxts, remote, nextId>>
        /\ UNCHANGED <<builds, deleted, nDeleted, run>>

\* _perform for a challenge of Cs; each remote response is drawn where the
\* handler gets as far as the call
PerformOn(Cs) ==
    \E c \in Cs :
        /\ lastOp' = "perform"
        /\ prePending' = infotxts
        /\ args' = c
        /\ infoclient' = GetInfobloxClient(infoclient, credentials)
        /\ UNCHANGED <<credentials, deleted, nDeleted>>
        /\ IF GetClientOutcome(infoclient, credentials) # "ok"
             THEN /\ outcome' = GetClientOutcome(infoclient, credentials)
                  /\ calls' = <<>>
                  /\ builds' = builds + GetClient(infoclient, credentials).built
                  /\ UNCHANGED <<infotxts, remote, nextId>>
             ELSE \E viewResp \in ListResponses(ViewResults),
                     zoneResp \in ListResponses(ZoneResults),
                     createResp \in CreateResponses :
                    LET r == PerformResult(credentials, infotxts, nextId,
                                           c.domain, c.validation_name, c.validation,
                                           viewResp, zoneResp, createResp)
                    IN  \* a response the handler never asks for is not an input
                        /\ Len(r.calls) < 2 => zoneResp = Raised
                        /\ Len(r.calls) < 3 => createResp = Raised
                        \* _perform and _get_infoblox_record each call
                        \* _get_infoblox_client
                        /\ builds' = builds
                              + GetClient(infoclient, credentials).built
                              + GetClient(GetInfobloxClient(infoclient, credentials),
                                          credentials).built
                        /\ outcome' = r.outcome
                        /\ calls' = r.calls
                        /\ infotxts' = r.infotxts
                        /\ remote' = remote \cup r.created
                        /\ nextId' = nextId + Cardinality(r.created)
        /\ run' = RunAfterPerform(run, outcome')

Perform ==
    /\ nextId <= MaxRecords
    /\ PerformOn(RunChallenges)

\* the first challenge of a run, over every challenge
PerformFirst ==
    /\ nextId = 1
    /\ PerformOn(AllChallenges)

\* _cleanup; the handler does not read its three arguments
Cleanup ==
    \E failing \in SUBSET Range(infotxts) :
        /\ lastOp' = "cleanup"
        /\ prePending' = infotxts
        /\ args' = NoArgs
        /\ infoclient' = GetInfobloxClient(infoclient, credentials)
        /\ builds' = builds + GetClient(infoclient, credentials).built
        /\ UNCHANGED <<credentials, nextId>>
        /\ IF GetClientOutcome(infoclient, credentials) # "ok"
             THEN /\ outcome' = GetClientOutcome(infoclient, credentials)
                  /\ calls' = <<>>
                  /\ UNCHANGED <<infotxts, remote>>
             ELSE LET r == CleanupResult(infotxts, failing, remote)
                  IN  /\ outcome' = r.outcome
                      /\ calls' = r.calls
                      /\ infotxts' = r.infotxts
                      /\ remote' = r.remote
        /\ deleted' = deleted \cup {calls'[i].arg.id : i \in DeletedBy(calls')}
        /\ nDeleted' = nDeleted + Cardinality(DeletedBy(calls'))
        /\ run' = RunAfterCleanup(run, outcome')

Next == SetupCredentials \/ Perform \/ Cleanup

Spec == Init /\ [][Next]_vars

NextRecord == SetupCredentials \/ PerformFirst \/ Cleanup

SpecRecord == Init /\ [][NextRecord]_vars

TypeOK ==
    /\ infotxts \in BoundedSeq(1..MaxRecords, MaxRecords)
    /\ remote \subseteq 1..MaxRecords
    /\ nextId \in 1..(MaxRecords + 1)
    /\ lastOp \in {"init", "setup", "perform", "cleanup"}
    /\ outcome \in {"ok", "AttributeError", "IndexError", "ValueError", "TransportError"}
    /\ builds \in 0..1
    /\ deleted \subseteq 1..MaxRecords
    /\ nDeleted \in 0..MaxRecords
    /\ run.performs \in 0..MaxRecords /\ run.cleanups \in 0..run.performs

-----------------------------------------------------------------------------
(* The claims *)

IsCall(i, api) == i <= Len(calls) /\ calls[i].api = api

NoDuplicates(s) == \A i, j \in 1..Len(s) : i # j => s[i] # s[j]

\* p is the text of s before its first "."
IsFirstLabel(p, s) ==
    /\ Len(p) <= Len(s)
    /\ p = SubSeq(s, 1, Len(p))
    /\ "." \notin Range(p)
    /\ Len(p) = Len(s) \/ s[Len(p) + 1] = "."

\* C1: a cleanup in which every delete call succeeds issues one delete call
\* per pending identifier, in insertion order, and ends with the pending
\* sequence empty.
C1_CleanupDeletesEveryPending ==
    (lastOp = "cleanup" /\ outcome = "ok") =>
        /\ Len(calls) = Len(prePending)
        /\ \A i \in 1..Len(calls) :
              IsCall(i, "RecordApi.delete") /\ calls[i].arg.id = prePending[i]
        /\ infotxts = <<>>

\* C2: when the k-th delete call of a cleanup fails, the identifiers at the
\* positions before k of the pending sequence as it was at the start are
\* deleted remotely and gone from the sequence, those at k and after are
\* still pending, the error surfaces and the failed call is the last one.
C2_FailedDeleteSplitsAtK ==
    (lastOp = "cleanup" /\ outcome = "TransportError") =>
        LET k == Len(calls)
        IN  /\ k >= 1 /\ ~calls[k].ok
            /\ \A i \in 1..(k - 1) : calls[i].ok
            /\ \A i \in 1..Len(prePending) :
                  IF i < k
                    THEN prePending[i] \notin remote /\ prePending[i] \notin Range(infotxts)
                    ELSE prePending[i] \in Range(infotxts)

\* C3: a perform that succeeds leaves the pending sequence equal to the old
\* one with the identifier returned by its create call appended at the end.
C3_PerformAppendsCreatedId ==
    (lastOp = "perform" /\ outcome = "ok") =>
        /\ IsCall(Len(calls), "RecordApi.create")
        /\ calls[Len(calls)].ok
        /\ Len(infotxts) = Len(prePending) + 1
        /\ SubSeq(infotxts, 1, Len(prePending)) = prePending
        /\ <<infotxts[Len(infotxts)]>> = calls[Len(calls)].results

C3_Witness ==
    lastOp = "perform" /\ outcome = "ok" /\ Len(prePending) >= 2

\* C4: when the zone list query returns no match, perform fails with the
\* not-found error (ValueError), issues no create call, creates no remote
\* record and leaves the pending sequence as it was.
C4_NoZoneNoRecord ==
    (lastOp = "perform" /\ IsCall(2, "AuthZoneApi.list")
        /\ calls[2].ok /\ calls[2].results = <<>>) =>
        /\ outcome = "ValueError"
        /\ \A i \in 1..Len(calls) : calls[i].api # "RecordApi.create"
        /\ infotxts = prePending
        /\ remote = Range(prePending)

C4_Witness ==
    /\ lastOp = "perform" /\ IsCall(2, "AuthZoneApi.list")
    /\ calls[2].ok /\ calls[2].results = <<>>
    /\ calls[2].arg.fqdn = "other.org"
    /\ prePending # <<>>

\* C5: for a non-blank view name, when the view list query returns no match,
\* or a first match whose identifier is empty or absent, perform fails with
\* the error kind of a missing zone (ValueError) and goes no further.
C5_NoViewIsNotFound ==
    (lastOp = "perform" /\ IsCall(1, "ViewApi.list") /\ ~Falsy(credentials.view)
        /\ calls[1].ok
        /\ (calls[1].results = <<>> \/ Falsy(calls[1].results[1]))) =>
        /\ outcome = "ValueError"
        /\ Len(calls) = 1

\* C6: after every handler the pending identifiers are exactly the records
\* created here and not deleted remotely, and none appears twice.
C6_PendingIsOutstanding ==
    /\ Range(infotxts) = remote
    /\ NoDuplicates(infotxts)

C6_Witness ==
    /\ lastOp = "cleanup" /\ outcome = "TransportError"
    /\ Len(calls) >= 2
    /\ Len(infotxts) >= 2

\* C7: the payload of a create call has type TXT, the validation token as
\* record data, the text of the validation name before its first "." as
\* short name, the identifier of the first zone returned for the domain as
\* zone, and a time-to-live of 300.
C7_PayloadFields ==
    (lastOp = "perform" /\ IsCall(3, "RecordApi.create")) =>
        LET body == calls[3].arg
        IN  /\ body.type = "TXT"
            /\ body.rdata = [text |-> args.validation]
            /\ IsFirstLabel(body.name_in_zone, args.validation_name)
            /\ IsCall(2, "AuthZoneApi.list")
            /\ calls[2].arg.fqdn = args.domain
            /\ body.zone = calls[2].results[1]
            /\ body.ttl = 300

C7_Witness ==
    /\ lastOp = "perform" /\ IsCall(3, "RecordApi.create")
    /\ args.validation_name = <<"a", ".">>
    /\ calls[3].arg.name_in_zone = <<"a">>
    /\ calls[2].results = <<"zone2", "zone1">>
    /\ args.validation = "xyz789"

\* C8: the view list query of a perform is issued with the name "default"
\* when the credential's view setting is empty or absent, and with the
\* configured name otherwise.
C8_ViewQueryName ==
    (lastOp = "perform" /\ Len(calls) >= 1) =>
        /\ IsCall(1, "ViewApi.list")
        /\ calls[1].arg.name =
              IF credentials.view \in {NoneStr, ""} THEN "default" ELSE credentials.view

C8_Witness ==
    /\ lastOp = "perform" /\ IsCall(1, "ViewApi.list")
    /\ credentials.view = ""
    /\ calls[1].arg.name = "default"

\* C9: when a remote call of a perform fails, perform ends with that error,
\* the failed call is the last call it issued, and the pending sequence is
\* what it was before.
C9_PerformFailureIsFinal ==
    (lastOp = "perform" /\ \E i \in 1..Len(calls) : ~calls[i].ok) =>
        /\ outcome = "TransportError"
        /\ \A i \in 1..(Len(calls) - 1) : calls[i].ok
        /\ infotxts = prePending

C9_Witness ==
    /\ lastOp = "perform" /\ IsCall(3, "RecordApi.create") /\ ~calls[3].ok
    /\ prePending # <<>>

\* C10 as stated: a cleanup started with the pending sequence empty issues
\* no remote call and leaves the pending sequence, the client handle and the
\* credentials unchanged.
C10_EmptyCleanupChangesNothing ==
    [][(lastOp' = "cleanup" /\ infotxts = <<>>) =>
          /\ calls' = <<>>
          /\ infotxts' = infotxts
          /\ infoclient' = infoclient
          /\ credentials' = credentials]_vars

\* C10 as amended: a cleanup started with the pending sequence empty issues
\* no remote call and leaves the pending sequence and the credentials
\* unchanged; a client handle that exists is left as it is, and when none
\* exists the cleanup builds one from the loaded credentials and keeps it,
\* or, with no credentials loaded, fails and changes nothing.
C10_EmptyCleanupKeepsPendingBuildsClient ==
    [][(lastOp' = "cleanup" /\ infotxts = <<>>) =>
          /\ calls' = <<>>
          /\ infotxts' = infotxts
          /\ credentials' = credentials
          /\ remote' = remote
          /\ IF infoclient # None
               THEN infoclient' = infoclient /\ outcome' = "ok"
             ELSE IF credentials = None
               THEN infoclient' = None /\ outcome' = "AttributeError"
             ELSE /\ outcome' = "ok"
                  /\ infoclient' # None
                  /\ infoclient'.api_key = credentials.api_key]_vars

C10_Witness ==
    /\ lastOp = "cleanup" /\ prePending = <<>> /\ outcome = "ok"
    /\ infoclient # None
    /\ nextId = 1

\* C11: the remote calls of a perform are issued in the order view list,
\* zone list, record create, each only after the one before it returned; the
\* zone list is queried only once the view resolved, a create call is issued
\* only once the view and the zone resolved, and at most one create call is
\* issued.
C11_PerformCallOrder ==
    lastOp = "perform" =>
        /\ Len(calls) <= 3
        /\ Len(calls) >= 1 => calls[1].api = "ViewApi.list"
        /\ Len(calls) >= 2 =>
              /\ calls[2].api = "AuthZoneApi.list"
              /\ calls[1].ok
              /\ calls[1].results # <<>>
              /\ calls[1].results[1] \notin {NoneStr, ""}
        /\ Len(calls) >= 3 =>
              /\ calls[3].api = "RecordApi.create"
              /\ calls[2].ok
              /\ calls[2].results # <<>>
        /\ Cardinality({i \in 1..Len(calls) : calls[i].api = "RecordApi.create"}) <= 1

C11_Witness ==
    /\ lastOp = "perform" /\ Len(calls) = 3
    /\ calls[3].api = "RecordApi.create" /\ calls[3].ok
    /\ calls[1].results = <<"view2", "view1">>
    /\ prePending # <<>>

\* C12: a successful perform that directly follows a successful perform
\* with the same domain, validation name and token issues a create call of
\* its own and gets an identifier of its own; after it the two identifiers
\* are pending, in call order, behind what was pending before.
C12_PerformTwiceCreatesTwice ==
    [][(/\ lastOp = "perform" /\ outcome = "ok"
        /\ lastOp' = "perform" /\ outcome' = "ok"
        /\ args' = args) =>
          /\ IsCall(3, "RecordApi.create") /\ calls[3].ok
          /\ Len(calls') = 3 /\ calls'[3].api = "RecordApi.create" /\ calls'[3].ok
          /\ calls'[3].results # calls[3].results
          /\ calls'[3].results[1] \notin Range(infotxts)
          /\ infotxts' = prePending \o calls[3].results \o calls'[3].results
          /\ {calls[3].results[1], calls'[3].results[1]} \subseteq remote']_vars

C12_Witness ==
    /\ lastOp = "perform" /\ outcome = "ok"
    /\ Len(prePending) >= 1 /\ Len(infotxts) = Len(prePending) + 1
    /\ run.on /\ run.performs >= 2
    /\ args = Challenge("example.com", <<"a", ".">>, "abc123")

\* C13: over any sequence of perform and cleanup invocations at most one
\* client handle is constructed; it is constructed by the first invocation
\* that obtains it, so that every invocation that issues a remote call has
\* it; and once it exists no later invocation constructs another, replaces
\* it or clears it.
C13_ClientBuiltOnceAndKept ==
    [][/\ builds' <= 1
       /\ infoclient # None => (infoclient' = infoclient /\ builds' = builds)
       /\ (infoclient = None /\ infoclient' # None) =>
             (builds = 0 /\ builds' = 1 /\ lastOp' \in {"perform", "cleanup"})
       /\ calls' # <<>> => (infoclient' # None /\ builds' = 1)
       /\ (lastOp' \in {"perform", "cleanup"} /\ credentials # None) =>
             infoclient' # None]_vars

C13_Witness ==
    /\ lastOp = "cleanup" /\ Len(calls) >= 1
    /\ builds = 1 /\ infoclient # None
    /\ nextId >= 3

PayloadFields == {"name", "type", "rdata", "name_in_zone", "zone", "ttl", "comment"}

\* C14: two performs in a row with the same domain, validation name and
\* token and the same zone list, whose view queries resolve to two different
\* view identifiers, pass equal payloads to the create call, and neither
\* payload holds a view identifier.
C14_PayloadIgnoresView ==
    [][(/\ lastOp = "perform" /\ IsCall(3, "RecordApi.create")
        /\ lastOp' = "perform" /\ Len(calls') = 3
        /\ args' = args
        /\ calls'[2].results = calls[2].results
        /\ calls'[1].results[1] # calls[1].results[1]) =>
          /\ calls'[3].arg = calls[3].arg
          /\ DOMAIN calls[3].arg = PayloadFields
          /\ DOMAIN calls'[3].arg = PayloadFields
          /\ calls[3].arg.zone # calls[1].results[1]
          /\ calls'[3].arg.zone # calls'[1].results[1]]_vars

C14_Witness ==
    /\ lastOp = "perform" /\ IsCall(3, "RecordApi.create")
    /\ calls[1].results = <<"view2", "view1">>
    /\ run.on /\ run.performs >= 2

\* some step is a pair of performs as C14 describes them
C14_NoSuchPair ==
    [][~(/\ lastOp = "perform" /\ IsCall(3, "RecordApi.create")
         /\ lastOp' = "perform" /\ Len(calls') = 3
         /\ args' = args
         /\ calls'[2].results = calls[2].results
         /\ calls'[1].results[1] # calls[1].results[1])]_vars

\* C15: after N >= 1 successful performs followed by N cleanups in which
\* every delete call succeeds, the pending sequence is empty, N delete calls
\* have been issued in all, for N distinct identifiers, and no record created
\* in the run is left; and every cleanup that starts with a non-empty
\* pending sequence and whose delete calls succeed ends with a shorter one.
C15_HostRunEndsClean ==
    /\ (run.on /\ run.performs >= 1 /\ run.cleanups = run.performs) =>
          /\ infotxts = <<>>
          /\ nDeleted = run.performs
          /\ Cardinality(deleted) = run.performs
          /\ remote = {}
    /\ (lastOp = "cleanup" /\ outcome = "ok" /\ prePending # <<>>) =>
          Len(infotxts) < Len(prePending)

C15_Witness ==
    /\ run.on /\ run.performs >= 3 /\ run.cleanups = run.performs
    /\ lastOp = "cleanup" /\ infotxts = <<>>

\* C16: every delete call of a cleanup targets an identifier that is pending
\* when the call is issued (pending at the start and not removed earlier in
\* the invocation), hence one that a create call returned; and no delete
\* call, successful or failed, targets an identifier whose delete succeeded
\* before.
C16_DeleteTargetsPendingOnce ==
    /\ nDeleted = Cardinality(deleted)
    /\ lastOp = "cleanup" =>
          \A i \in 1..Len(calls) :
              /\ calls[i].api = "RecordApi.delete"
              /\ calls[i].arg.id \in
                    Range(prePending) \ {calls[j].arg.id : j \in 1..(i - 1)}
              /\ calls[i].arg.id \in 1..(nextId - 1)
              /\ ~calls[i].ok => calls[i].arg.id \notin deleted

C16_Witness ==
    /\ lastOp = "cleanup" /\ Len(calls) >= 2
    /\ ~calls[Len(calls)].ok
    /\ nDeleted >= 3

====
